---- MODULE Spec2Model ----
(***************************************************************************)
(* EM-Field-Visualizer: the restricted expression evaluator                *)
(* (Visualizer/evaluation.py), the density presets (Visualizer/presets.py) *)
(* and the field computation of visualize_fields                           *)
(* (Visualizer/visualizer.py).                                             *)
(***************************************************************************)
EXTENDS Integers, Sequences, FiniteSets, TLC

VARIABLES
    \* evaluation.py: one call safe_eval(expr, variables, functions)
    expr,        \* the parsed expression (ast.parse(expr, '<string>', 'eval').body)
    variables,   \* name -> number
    functions,   \* the names of the function mapping
    evalRes,     \* pending before the call, then the value or the exception
    \* presets.py: the density functions get_preset returns for one set of
    \* parameters, applied at one position
    preset,      \* the density specification without its "func"
    position,    \* <<x, y, z>>
    rhoOut,      \* func -> pending, or get_preset(...)(z, y, x)
    \* visualizer.py: one run of visualize_fields(config)
    config,
    eval_safety, \* the module's eval_safety (--safety)
    pc,          \* "start", "charges", "densities", "reorder", "plot"; "raised"
    error,       \* the exception that left visualize_fields, "" if none
    bound,       \* the local names assigned so far
    axes,
    plane_axes,  \* <<ax1, ax2>>
    e_field,     \* [charges: efield_charges added, terms: quadratures added, moved]
    list_charge_densities,
    idx,         \* iterations of the densities loop entered
    overall_charge_density

evalVars == <<expr, variables, functions, evalRes>>
presetVars == <<preset, position, rhoOut>>
vizVars == <<config, eval_safety, pc, error, bound, axes, plane_axes, e_field,
             list_charge_densities, idx, overall_charge_density>>
vars == <<evalVars, presetVars, vizVars>>

(***************************************************************************)
(* Numbers.  A number is an exact rational [n, d] in lowest terms, d >= 1. *)
(* Python's int and float agree with the rationals on + - * / // and on    *)
(* ** with an integer exponent as long as the value is exactly             *)
(* representable; a value whose numerator or denominator leaves            *)
(* -Cap..Cap, or an irrational power, is outside the numbers tracked here  *)
(* (status "OutOfRange") and such inputs are not drawn.                    *)
(***************************************************************************)
Cap == 10000

Abs(i) == IF i < 0 THEN 0 - i ELSE i

RECURSIVE GCD(_, _)
GCD(a, b) == IF b = 0 THEN a ELSE GCD(b, a % b)

Rat(n, d) == [n |-> n, d |-> d]
IntVal(i) == Rat(i, 1)

\* A result of an evaluation step: a value, or the exception raised.
Ok(v) == [st |-> "ok", n |-> v.n, d |-> v.d]
Raise(e) == [st |-> e, n |-> 0, d |-> 1]
ValOf(r) == Rat(r.n, r.d)

\* num/den (den # 0, both within Cap * Cap) in lowest terms, or OutOfRange.
Norm(num, den) ==
    LET s == IF den < 0 THEN 0 - 1 ELSE 1
        g == GCD(Abs(num), Abs(den))
        n == (s * num) \div g
        d == (s * den) \div g
    IN IF Abs(n) > Cap \/ d > Cap THEN Raise("OutOfRange") ELSE Ok(Rat(n, d))

RatLess(a, b) == a.n * b.d < b.n * a.d

\* b^e for b >= 0, e >= 0 by repeated multiplication; -1 once it exceeds Cap.
RECURSIVE IPow(_, _, _)
IPow(b, e, acc) ==
    IF e = 0 THEN acc
    ELSE IF b = 0 THEN 0
    ELSE IF b = 1 THEN acc
    ELSE IF acc * b > Cap THEN 0 - 1
    ELSE IPow(b, e - 1, acc * b)

\* operator.pow(a, b)
op_pow(a, b) ==
    IF b.d = 1 THEN
        IF b.n >= 0 THEN
            LET pn == IPow(Abs(a.n), b.n, 1)
                pd == IPow(a.d, b.n, 1)
                sg == IF a.n < 0 /\ b.n % 2 = 1 THEN 0 - 1 ELSE 1
            IN IF pn < 0 \/ pd < 0 THEN Raise("OutOfRange") ELSE Ok(Rat(sg * pn, pd))
        ELSE IF a.n = 0 THEN Raise("ZeroDivisionError")
        ELSE
            LET pn == IPow(a.d, 0 - b.n, 1)
                pd == IPow(Abs(a.n), 0 - b.n, 1)
                sg == IF a.n < 0 /\ (0 - b.n) % 2 = 1 THEN 0 - 1 ELSE 1
            IN IF pn < 0 \/ pd < 0 THEN Raise("OutOfRange") ELSE Ok(Rat(sg * pn, pd))
    ELSE \* a fractional exponent: exact only for the bases 0 and 1
        IF a.n = 0 THEN (IF b.n > 0 THEN Ok(IntVal(0)) ELSE Raise("ZeroDivisionError"))
        ELSE IF a.n = 1 /\ a.d = 1 THEN Ok(IntVal(1))
        ELSE Raise("OutOfRange")

(***************************************************************************)
(* evaluation.py                                                           *)
(***************************************************************************)
\* A table that also admits ast.Mod.
ast_operations_with_mod == {"Add", "Sub", "Mult", "Div", "FloorDiv", "Pow", "Mod"}
\* The whitelisted binary operators (the keys of ast_operations).
ast_operations == {"Add", "Sub", "Mult", "Div", "FloorDiv", "Pow"}

\* ast_operations[op](left, right)
ApplyOp(op, a, b) ==
    CASE op = "Add" -> Norm(a.n * b.d + b.n * a.d, a.d * b.d)
      [] op = "Sub" -> Norm(a.n * b.d - b.n * a.d, a.d * b.d)
      [] op = "Mult" -> Norm(a.n * b.n, a.d * b.d)
      [] op = "Div" ->
            IF b.n = 0 THEN Raise("ZeroDivisionError") ELSE Norm(a.n * b.d, a.d * b.n)
      [] op = "FloorDiv" ->
            IF b.n = 0 THEN Raise("ZeroDivisionError")
            ELSE LET s == IF b.n < 0 THEN 0 - 1 ELSE 1
                 IN Norm((s * a.n * b.d) \div (s * a.d * b.n), 1)
      [] op = "Pow" -> op_pow(a, b)
      [] op = "Mod" -> \* operator.mod, on integers
            IF b.n = 0 THEN Raise("ZeroDivisionError")
            ELSE IF a.d # 1 \/ b.d # 1 THEN Raise("OutOfRange")
            ELSE IF b.n > 0 THEN Ok(IntVal(a.n % b.n))
            ELSE Ok(IntVal(0 - ((0 - a.n) % (0 - b.n))))

\* The functions of numpy_functions whose values are rational: abs.
numpy_functions == {"abs"}

\* func(*args) for a function of the mapping
ApplyFunc(f, args) ==
    IF f = "abs" /\ Len(args) = 1
    THEN Ok(Rat(Abs(args[1].n), args[1].d))
    ELSE Raise("TypeError")

\* An exponent bound that lets 100 itself through.
PowGuardOffByOne(right) == RatLess(right, IntVal(101))
\* `assert right < 100`
PowGuard(right) == RatLess(right, IntVal(100))

(***************************************************************************)
(* Nodes of the parsed expression: [k, a, n, c] with k the node class, a   *)
(* its operator class or identifier, n its number (Num) or number of       *)
(* keywords (Call), c its children (BinOp: left, right; Call: func, then   *)
(* the args; any other class: the operand).                                *)
(***************************************************************************)
Node(k, a, n, c) == [k |-> k, a |-> a, n |-> n, c |-> c]

RECURSIVE _safe_eval(_, _, _)
RECURSIVE EvalArgs(_, _, _, _, _)

\* args = [_safe_eval(arg, variables, functions) for arg in node.args]
\* children 2..Len(c) of the Call node, left to right; the first exception ends it
EvalArgs(c, i, vs, fs, acc) ==
    IF i > Len(c) THEN [st |-> "ok", vals |-> acc]
    ELSE LET r == _safe_eval(c[i], vs, fs)
         IN IF r.st # "ok" THEN [st |-> r.st, vals |-> <<>>]
            ELSE EvalArgs(c, i + 1, vs, fs, Append(acc, ValOf(r)))

_safe_eval(node, vs, fs) ==
    IF node.k = "Num" THEN Ok(IntVal(node.n))
    ELSE IF node.k = "Name" THEN
        IF node.a \in DOMAIN vs THEN Ok(vs[node.a]) ELSE Raise("KeyError")
    ELSE IF node.k = "BinOp" THEN
        IF node.a \notin ast_operations THEN Raise("KeyError")
        ELSE LET left == _safe_eval(node.c[1], vs, fs)
             IN IF left.st # "ok" THEN left
                ELSE LET right == _safe_eval(node.c[2], vs, fs)
                     IN IF right.st # "ok" THEN right
                        ELSE IF node.a = "Pow" /\ ~PowGuard(ValOf(right))
                             THEN Raise("AssertionError")
                        ELSE ApplyOp(node.a, ValOf(left), ValOf(right))
    ELSE IF node.k = "Call" THEN
        IF node.n # 0 THEN Raise("AssertionError")
        ELSE IF node.c[1].k # "Name" THEN Raise("AssertionError")
        ELSE IF node.c[1].a \notin fs THEN Raise("KeyError")
        ELSE LET args == EvalArgs(node.c, 2, vs, fs, <<>>)
             IN IF args.st # "ok" THEN Raise(args.st)
                ELSE ApplyFunc(node.c[1].a, args.vals)
    ELSE Raise("AssertionError")

safe_eval(e, vs, fs) == _safe_eval(e, vs, fs)

(***************************************************************************)
(* presets.py.  Coordinates, target values, offsets and tolerances are     *)
(* exact rationals counted in units of 0.05 (1.0 is 20 units); a           *)
(* coordinate is a Rat [n, d] of units, not necessarily in lowest terms.   *)
(* A density function is applied to (z, y, x), as in the source.           *)
(***************************************************************************)
PRESET_DELTA == 0
PRESET_HEAVISIDE == 1
PRESET_REVERSE_HEAVISIDE == 2

\* The value of a variable at a position: n/d ("lin"), sqrt(n)/d ("norm"),
\* an exception raised by the lambda, or no lambda at all ("None").
Qty(kind, n, d) == [kind |-> kind, n |-> n, d |-> d]

\* norm(*xi) = nl.norm([*xi]) for a sequence of Rats
RECURSIVE ProdDen(_)
ProdDen(xs) == IF xs = <<>> THEN 1 ELSE Head(xs).d * ProdDen(Tail(xs))
RECURSIVE SumSq(_, _)
SumSq(xs, D) ==
    IF xs = <<>> THEN 0
    ELSE LET t == Head(xs).n * (D \div Head(xs).d) IN t * t + SumSq(Tail(xs), D)
norm(xs) == LET D == ProdDen(xs) IN Qty("norm", SumSq(xs, D), D)

\* get_variable(var)(z, y, x); theta and phi use np, a name presets.py never
\* binds (it imports numpy.linalg as nl only), so their lambdas raise NameError.
get_variable(var, z, y, x) ==
    CASE var = "x" -> Qty("lin", x.n, x.d)
      [] var = "y" -> Qty("lin", y.n, y.d)
      [] var = "z" -> Qty("lin", z.n, z.d)
      [] var = "r" -> norm(<<x, y, z>>)
      [] var = "rc" -> norm(<<x, y>>)
      [] var = "theta" -> Qty("NameError", 0, 1)
      [] var = "phi" -> Qty("NameError", 0, 1)
      [] OTHER -> Qty("None", 0, 1)

\* a coordinate plus a number of units
Shift(c, u) == Rat(c.n + u * c.d, c.d)

\* offset_var(var, offset)(z, y, x); offset is 0 (absent) or a list of three
offset_var(var, offset, z, y, x) ==
    IF offset.given /\ var \in {"x", "y", "z", "r", "rc", "theta", "phi"}
    THEN get_variable(var, Shift(z, offset.v[3]), Shift(y, offset.v[2]), Shift(x, offset.v[1]))
    ELSE get_variable(var, z, y, x)

\* q < c and q > c for a quantity q and a number c of units
QtyLess(q, c) ==
    IF q.kind = "lin" THEN q.n < c * q.d
    ELSE c > 0 /\ q.n < c * c * q.d * q.d
QtyGreater(q, c) ==
    IF q.kind = "lin" THEN q.n > c * q.d
    ELSE c < 0 \/ q.n > c * c * q.d * q.d

\* The value of a density at a position, or the exception it raises.
DOk(v) == [st |-> "ok", v |-> v]
DRaise(e) == [st |-> e, v |-> 0]

\* delta(variable, value, offset, tolerance)(z, y, x):
\* 100 if nl.norm(var(z, y, x) - value) < tolerance else 0
delta(variable, value, offset, tolerance, z, y, x) ==
    LET q == offset_var(variable, offset, z, y, x)
    IN IF q.kind = "None" THEN DRaise("TypeError")
       ELSE IF q.kind = "NameError" THEN DRaise("NameError")
       ELSE IF QtyLess(q, value + tolerance) /\ QtyGreater(q, value - tolerance)
            THEN DOk(100) ELSE DOk(0)

\* heaviside(variable, value, offset, reverse)(z, y, x): a bool (1 or 0)
heaviside(variable, value, offset, reverse, z, y, x) ==
    LET q == offset_var(variable, offset, z, y, x)
    IN IF q.kind = "None" THEN DRaise("TypeError")
       ELSE IF q.kind = "NameError" THEN DRaise("NameError")
       ELSE IF reverse THEN DOk(IF QtyLess(q, value) THEN 1 ELSE 0)
       ELSE DOk(IF QtyGreater(q, value) THEN 1 ELSE 0)

\* density_func.get(key, default)
Get(density_func, key, default) ==
    IF key \in DOMAIN density_func THEN density_func[key] ELSE default

NoOffset == [given |-> FALSE, v |-> <<0, 0, 0>>]
Offset(v) == [given |-> TRUE, v |-> v]
DefaultTol == 3

\* get_preset(density_func)(z, y, x)
get_preset(density_func, z, y, x) ==
    LET scale == Get(density_func, "scale", 1)
        func == density_func["func"]
        var == density_func["var"]
        val == density_func["value"]
        offset == Get(density_func, "offset", NoOffset)
        tolerance == Get(density_func, "tol", DefaultTol)
    IN IF func = PRESET_DELTA THEN
           LET d == delta(var, val, offset, tolerance, z, y, x)
           IN IF d.st = "ok" THEN DOk(scale * d.v) ELSE d
       ELSE IF func \in {PRESET_HEAVISIDE, PRESET_REVERSE_HEAVISIDE} THEN
           LET h == heaviside(var, val, offset, func = PRESET_REVERSE_HEAVISIDE, z, y, x)
           IN IF h.st = "ok" THEN DOk(scale * h.v) ELSE h
       ELSE DRaise("TypeError")

(***************************************************************************)
(* visualizer.py                                                           *)
(***************************************************************************)
\* construct_function(safety, function): the exception it raises, or its
\* return value.  The function func defined at safety 2 is never returned, so
\* levels 1 and 2 both return None (callable = FALSE).
construct_function_ungated(safety, function) == [st |-> "ok", callable |-> FALSE]
construct_function(safety, function) ==
    IF safety = 0 THEN [st |-> "Exception", callable |-> FALSE]
    ELSE IF safety = 1 THEN [st |-> "ok", callable |-> FALSE]
    ELSE [st |-> "ok", callable |-> FALSE]

\* int(x) for x = a/20: truncation toward zero
Trunc(a) == IF a >= 0 THEN a \div 20 ELSE 0 - ((0 - a) \div 20)

\* A sample count that rounds resolution * extent to the nearest integer.
SampleCountRounded(resolution, x_min, x_max) == (resolution * (x_max - x_min) + 10) \div 20
\* config["resolution"] * int(x_max - x_min), the bounds in units of 0.05
SampleCount(resolution, x_min, x_max) == resolution * Trunc(x_max - x_min)

\* np.linspace(start, stop, num): num samples, the last one exactly stop
linspace(start, stop, num) ==
    IF num = 1 THEN <<Rat(start, 1)>>
    ELSE [k \in 1..num |-> Rat(start * (num - 1) + (k - 1) * (stop - start), num - 1)]

\* The axes loop of visualize_fields (lines 94-103).
AxisMin(cfg, i) == cfg["plot-bounds"]["min"][i] - cfg["plot-margins"][i]
AxisMax(cfg, i) == cfg["plot-bounds"]["max"][i] + cfg["plot-margins"][i]
AxisNum(cfg, i) == SampleCount(cfg["resolution"], AxisMin(cfg, i), AxisMax(cfg, i))
BuildAxes(cfg) ==
    [i \in 0..2 |->
        IF i = cfg["plane"]["axis"] THEN <<Rat(cfg["plane"]["coordinate"], 1)>>
        ELSE linspace(AxisMin(cfg, i), AxisMax(cfg, i), AxisNum(cfg, i))]

\* ax1, ax2 = {0: (1, 2), 1: (0, 2), 2: (0, 1)}[ax3]
PlaneAxes(ax3) == IF ax3 = 0 THEN <<1, 2>> ELSE IF ax3 = 1 THEN <<0, 2>> ELSE <<0, 1>>

\* The grid points of space = np.array(np.meshgrid(*axes)), each by its indices
\* into the three axes, and the coordinates of one.
Points(ax) ==
    {[i \in 0..2 |-> IF i = 0 THEN a ELSE IF i = 1 THEN b ELSE c] :
        a \in 1..Len(ax[0]), b \in 1..Len(ax[1]), c \in 1..Len(ax[2])}
Coord(ax, pt) == [i \in 0..2 |-> ax[i][pt[i]]]

\* The densities of the configuration ("charge-densities" may be absent).
Densities(cfg) ==
    IF "charge-densities" \in DOMAIN cfg THEN cfg["charge-densities"] ELSE <<>>

\* rho as built in the densities loop (lines 128-131): the exception raised, or
\* the value bound to rho.  A preset's func is an integer and an expression's a
\* string, so only a preset's func can equal a preset number.
BuildRho(density_func, safety) ==
    IF density_func["preset"]
    THEN [st |-> "ok",
          rho |-> [callable |-> density_func["func"] \in
                                  {PRESET_DELTA, PRESET_HEAVISIDE, PRESET_REVERSE_HEAVISIDE},
                   spec |-> density_func]]
    ELSE LET f == construct_function(safety, density_func["func"])
         IN [st |-> f.st, rho |-> [callable |-> f.callable, spec |-> density_func]]

\* rho(z, y, x); calling None raises TypeError
RhoAt(rho, z, y, x) ==
    IF rho.callable THEN get_preset(rho.spec, z, y, x) ELSE DRaise("TypeError")
\* rho(space[2], space[1], space[0]) at one grid point
RhoAtPoint(rho, ax, pt) ==
    LET X == Coord(ax, pt) IN RhoAt(rho, X[2], X[1], X[0])

\* A coordinate of the source point Y of an integrand: the i-th integration
\* variable, a fixed number, or what np.empty(3) held.
IntVar(i) == [kind |-> "var", i |-> i, c |-> Rat(0, 1)]
Const(c) == [kind |-> "const", i |-> 0, c |-> c]
Uninit == [kind |-> "uninit", i |-> 0, c |-> Rat(0, 1)]

\* Y = np.empty(3); Y[axis1] = x; Y[axis2] = y; Y[axis3] = z
SourcePoint(x, y, z, axis1, axis2, axis3) ==
    LET Y0 == [i \in 0..2 |-> Uninit]
        Y1 == [Y0 EXCEPT ![axis1] = x]
        Y2 == [Y1 EXCEPT ![axis2] = y]
    IN [Y2 EXCEPT ![axis3] = z]

\* integrand1(x, Xz, Xy, Xx, axis, y, z, axis1, axis2, axis3) with the extra
\* arguments args (after Xz, Xy, Xx) bound by position; x is the integration
\* variable of quad
integrand1Y(args) ==
    SourcePoint(IntVar(1), Const(Rat(args[2], 1)), Const(Rat(args[3], 1)),
                args[4], args[5], args[6])
\* integrand2(y, x, Xz, Xy, Xx, axis, z, axis1, axis2, axis3); dblquad calls
\* func(y, x) with x its outer (first limits) and y its inner variable
integrand2Y(args) ==
    SourcePoint(IntVar(1), IntVar(2), Const(Rat(args[2], 1)), args[3], args[4], args[5])
\* integrand(z, y, x, Xz, Xy, Xx, axis): Y = [x, y, z]; tplquad calls
\* func(z, y, x) with limits for x, then y, then z
integrandY == [i \in 0..2 |-> IntVar(i + 1)]

\* A table whose ("x", 1) entry names the axes in the order of ("x", 0).
AxisTableXSwapped(var, ax3) ==
    CASE var = "x" -> <<1, 2, 0>>
      [] var = "y" /\ ax3 = 0 -> <<2, 0, 1>>
      [] var = "y" /\ ax3 # 0 -> <<0, 2, 1>>
      [] var = "z" /\ ax3 = 0 -> <<1, 0, 2>>
      [] var = "z" /\ ax3 # 0 -> <<0, 1, 2>>
\* axis1, axis2, delAxis = {("x", 0): (1,2,0), ...}[(density_func["var"], ax3)]
AxisTable(var, ax3) ==
    CASE var = "x" /\ ax3 = 0 -> <<1, 2, 0>>
      [] var = "x" /\ ax3 = 1 -> <<2, 1, 0>>
      [] var = "x" /\ ax3 = 2 -> <<1, 2, 0>>
      [] var = "y" /\ ax3 = 0 -> <<2, 0, 1>>
      [] var = "y" /\ ax3 = 1 -> <<0, 2, 1>>
      [] var = "y" /\ ax3 = 2 -> <<0, 2, 1>>
      [] var = "z" /\ ax3 = 0 -> <<1, 0, 2>>
      [] var = "z" /\ ax3 = 1 -> <<0, 1, 2>>
      [] var = "z" /\ ax3 = 2 -> <<0, 1, 2>>

\* One quadrature call whose result is added to e_field[comp] at grid point pt
\* for density number k: its dimension, source point and integration limits.
Term(k, comp, pt, dim, Y, lim) ==
    [k |-> k, comp |-> comp, pt |-> pt, dim |-> dim, Y |-> Y, lim |-> lim]

First(seq) == seq[1]
Last(seq) == seq[Len(seq)]
RatEq(a, b) == a.n * b.d = b.n * a.d

\* A grid_integral that integrates at every grid point.
Integrates3DAlways(v) == TRUE
\* grid_integral, dim == 3: tplquad(...)[0] if rho(z, y, x) == 0 else 0
Integrates3D(v) == v = 0

\* The limits of the 3D branch (lines 208-215).
Limits3D(ax) ==
    LET a0 == <<First(ax[0]), First(ax[1]), First(ax[2])>>
        b0 == <<Last(ax[0]), Last(ax[1]), Last(ax[2])>>
    IN IF RatEq(a0[1], b0[1]) THEN <<<<a0[2], b0[2]>>, <<a0[2], b0[2]>>, <<a0[3], b0[3]>>>>
       ELSE IF RatEq(a0[2], b0[2]) THEN <<<<a0[1], b0[1]>>, <<a0[1], b0[1]>>, <<a0[3], b0[3]>>>>
       ELSE IF RatEq(a0[3], b0[3]) THEN <<<<a0[1], b0[1]>>, <<a0[2], b0[2]>>, <<a0[1], b0[1]>>>>
       ELSE <<<<a0[1], b0[1]>>, <<a0[2], b0[2]>>, <<a0[3], b0[3]>>>>

\* Whether the density takes the reduced (1D or 2D) branch (lines 172-173).
IsAxisDelta(density_func) ==
    /\ density_func["preset"]
    /\ density_func["func"] = PRESET_DELTA
    /\ density_func["var"] \in {"x", "y", "z"}

\* The field contribution of density number k (lines 172-223): the exception
\* raised, or the quadrature calls whose results are added to e_field.
Integrate(density_func, rho, k, cfg, ax) ==
    LET ax3 == cfg["plane"]["axis"]
        Z == cfg["plane"]["coordinate"]
        comps == (0..2) \ {ax3}
    IN IF \E i \in 0..2 : Len(ax[i]) = 0 THEN [st |-> "IndexError", terms |-> {}]
       ELSE IF IsAxisDelta(density_func) THEN
           LET val == density_func["value"]
               t == AxisTable(density_func["var"], ax3)
               axis1 == t[1]
               axis2 == t[2]
               delAxis == t[3]
               x_lim == <<First(ax[axis1]), Last(ax[axis1])>>
               y_lim == <<First(ax[axis2]), Last(ax[axis2])>>
           IN IF delAxis = ax3
              THEN [st |-> "ok",
                    terms |-> {Term(k, axis, pt, 2,
                                    integrand2Y(<<axis, val, axis1, axis2, delAxis>>),
                                    <<x_lim, y_lim>>) : axis \in comps, pt \in Points(ax)}]
              ELSE [st |-> "ok",
                    terms |-> {Term(k, axis, pt, 1,
                                    integrand1Y(<<axis, val, Z, axis1, delAxis, axis2>>),
                                    <<x_lim>>) : axis \in comps, pt \in Points(ax)}]
       ELSE
           LET raising == {pt \in Points(ax) : RhoAtPoint(rho, ax, pt).st # "ok"}
           IN IF raising # {}
              THEN [st |-> RhoAtPoint(rho, ax, CHOOSE pt \in raising : TRUE).st, terms |-> {}]
              ELSE [st |-> "ok",
                    terms |-> {Term(k, axis, pt, 3, integrandY, Limits3D(ax)) :
                                  axis \in comps,
                                  pt \in {q \in Points(ax) :
                                            Integrates3D(RhoAtPoint(rho, ax, q).v)}}]

\* sum of np.vectorize(rho)(space[2], space[1], space[0]) over the list, at pt
RECURSIVE SumRho(_, _, _)
SumRho(list, ax, pt) ==
    IF list = <<>> THEN 0
    ELSE RhoAtPoint(Head(list), ax, pt).v + SumRho(Tail(list), ax, pt)

(***************************************************************************)
(* The expressions drawn: every tree of at most MaxNodes nodes over the    *)
(* literals, names, operators and node classes below.                      *)
(***************************************************************************)
MaxNodes == 5

Lits == {0, 2, 100, 1000}
Names == {"x", "q"}
BinOps == ast_operations \cup {"Mod"}
\* Node classes _safe_eval has no branch for; the code never reads their fields.
OtherKinds == {"UnaryOp", "Compare", "Attribute", "Subscript", "Lambda"}
Callees == {Node("Name", "abs", 0, <<>>), Node("Name", "exec", 0, <<>>),
            Node("Attribute", "sin", 0, <<Node("Name", "np", 0, <<>>)>>)}

Leaves == {Node("Num", "", n, <<>>) : n \in Lits} \cup {Node("Name", a, 0, <<>>) : a \in Names}

\* The trees of exactly s nodes, T[i] being the set of the trees of i < s nodes:
\* a binary operation over two subtrees,
BinOpTrees(T, s, i) ==
    {Node("BinOp", o, 0, <<l, r>>) : o \in BinOps, l \in T[i], r \in T[s - 1 - i]}
\* a node of a class without a branch (over a leaf), a call without arguments,
SmallTrees ==
    {Node(k, "", 0, <<t>>) : k \in OtherKinds, t \in Leaves}
    \cup {Node("Call", "", kw, <<f>>) : kw \in {0, 1}, f \in Callees}
\* a call with one argument, with or without keywords,
Call1Trees(T, s) ==
    {Node("Call", "", kw, <<f, t>>) : kw \in {0, 1}, f \in Callees, t \in T[s - 2]}
\* a call with two arguments.
Call2Trees ==
    {Node("Call", "", kw, <<f, t, u>>) : kw \in {0, 1}, f \in Callees, t \in Leaves, u \in Leaves}

IsTreeOfSize(e, T, s) ==
    \/ s = 1 /\ e \in Leaves
    \/ s = 2 /\ e \in SmallTrees
    \/ s = 4 /\ e \in Call2Trees
    \/ s > 2 /\ e \in Call1Trees(T, s)
    \/ \E i \in 1..(s - 2) : e \in BinOpTrees(T, s, i)

TreesOfSize(T, s) ==
    IF s = 1 THEN Leaves
    ELSE IF s = 2 THEN SmallTrees
    ELSE UNION ({BinOpTrees(T, s, i) : i \in 1..(s - 2)}
                \cup {Call1Trees(T, s)} \cup {IF s = 4 THEN Call2Trees ELSE {}})

RECURSIVE TreesUpTo(_)
TreesUpTo(s) ==
    IF s < 1 THEN <<>>
    ELSE LET T == TreesUpTo(s - 1) IN Append(T, TreesOfSize(T, s))

\* The subtrees a tree of at most MaxNodes nodes is built from.
Subtrees == TreesUpTo(MaxNodes - 2)

\* The variable mappings and function mappings drawn.
EmptyMap == [a \in {} |-> Rat(0, 1)]
VarMaps == {EmptyMap, [a \in {"x"} |-> IntVal(2)]}
FuncMaps == {{}, numpy_functions}

Pending == Raise("pending")
DPending == DRaise("pending")

\* The variables of the parts of the program a specification leaves alone.
IdleEval ==
    /\ expr = Node("Num", "", 0, <<>>)
    /\ variables = EmptyMap
    /\ functions = {}
    /\ evalRes = Pending
IdlePreset ==
    /\ preset = [var |-> "x", value |-> 0]
    /\ position = <<Rat(0, 1), Rat(0, 1), Rat(0, 1)>>
    /\ rhoOut = [f \in 0..2 |-> DPending]
IdleViz ==
    /\ config = [plane |-> [axis |-> 2, coordinate |-> 0]]
    /\ eval_safety = 0
    /\ pc = "idle"
    /\ error = ""
    /\ bound = {}
    /\ axes = [i \in 0..2 |-> <<>>]
    /\ plane_axes = <<0, 1>>
    /\ e_field = [charges |-> FALSE, terms |-> {}, moved |-> FALSE]
    /\ list_charge_densities = <<>>
    /\ idx = 0
    /\ overall_charge_density = [pt \in {} |-> 0]

(***************************************************************************)
(* SpecEval: safe_eval applied to every drawn expression and mapping.      *)
(***************************************************************************)
InitEval ==
    /\ \E s \in 1..MaxNodes : IsTreeOfSize(expr, Subtrees, s)
    /\ variables \in VarMaps
    /\ functions \in FuncMaps
    /\ safe_eval(expr, variables, functions).st # "OutOfRange"
    /\ evalRes = Pending
    /\ IdlePreset
    /\ IdleViz

\* result = safe_eval(expr, variables, functions)
CallSafeEval ==
    /\ evalRes = Pending
    /\ evalRes' = safe_eval(expr, variables, functions)
    /\ UNCHANGED <<expr, variables, functions, presetVars, vizVars>>

NextEval == CallSafeEval

SpecEval == InitEval /\ [][NextEval]_vars

(***************************************************************************)
(* SpecPreset: the three presets built from the same parameters, each      *)
(* applied at the same position.                                           *)
(***************************************************************************)
PresetVars == {"x", "y", "z", "r", "rc", "theta", "phi"}
\* 0.1 and the default 0.15
Tolerances == {2, DefaultTol}
\* -0.2, 0, 0.05, 0.2 along x; 0 and 0.2 along y and z
XCoords == {0 - 4, 0, 1, 4}
YZCoords == {0, 4}

WithOptional(r, key, given, v) == IF given THEN (key :> v) @@ r ELSE r

PresetInputs ==
    {WithOptional(WithOptional(WithOptional(
        [var |-> v, value |-> t], "scale", sc # 1, sc), "tol", tol # DefaultTol, tol),
        "offset", off # <<0, 0, 0>>, Offset(off)) :
        v \in PresetVars, t \in {0, 1}, sc \in {1, 3}, tol \in Tolerances,
        off \in {<<0, 0, 0>>, <<1, 0, 0>>}}

InitPreset ==
    /\ preset \in PresetInputs
    /\ position \in {<<Rat(x, 1), Rat(y, 1), Rat(z, 1)>> :
                        x \in XCoords, y \in YZCoords, z \in YZCoords}
    /\ rhoOut = [f \in 0..2 |-> DPending]
    /\ IdleEval
    /\ IdleViz

\* get_preset(density_func)(z, y, x) for density_func = preset plus "func": f
CallPreset(f) ==
    /\ rhoOut[f] = DPending
    /\ rhoOut' = [rhoOut EXCEPT ![f] =
                      get_preset(("func" :> f) @@ preset,
                                 position[3], position[2], position[1])]
    /\ UNCHANGED <<preset, position, evalVars, vizVars>>

NextPreset == \E f \in {PRESET_DELTA, PRESET_HEAVISIDE, PRESET_REVERSE_HEAVISIDE} : CallPreset(f)

SpecPreset == InitPreset /\ [][NextPreset]_vars

\* The exceptions the densities of the list raise over the grid.
AggregateRaises(list, ax) ==
    {RhoAtPoint(list[i], ax, pt).st : i \in 1..Len(list), pt \in Points(ax)} \ {"ok"}

(***************************************************************************)
(* visualize_fields(config), step by step.                                 *)
(***************************************************************************)
RaiseFrom(e) ==
    /\ pc' = "raised"
    /\ error' = e

\* Lines 92-112: the axes, the grid, ax1 and ax2, the zero fields.
BuildGrid ==
    /\ pc = "start"
    /\ IF \E i \in (0..2) \ {config["plane"]["axis"]} : AxisNum(config, i) < 0
       THEN /\ RaiseFrom("ValueError")
            /\ UNCHANGED <<axes, plane_axes, bound>>
       ELSE /\ axes' = BuildAxes(config)
            /\ plane_axes' = PlaneAxes(config["plane"]["axis"])
            /\ bound' = bound \cup {"axes", "space", "ax1", "ax2", "e_field", "b_field"}
            /\ pc' = "charges"
            /\ UNCHANGED error
    /\ UNCHANGED <<config, eval_safety, e_field, list_charge_densities, idx,
                   overall_charge_density, evalVars, presetVars>>

\* Lines 114-124: the field of the point charges, the empty density list.
AddCharges ==
    /\ pc = "charges"
    /\ e_field' = [e_field EXCEPT !.charges = "charges" \in DOMAIN config]
    /\ bound' = bound \cup {"list_charge_densities"}
                      \cup (IF "charges" \in DOMAIN config THEN {"charges"} ELSE {})
    /\ pc' = "densities"
    /\ UNCHANGED <<config, eval_safety, error, axes, plane_axes, list_charge_densities,
                   idx, overall_charge_density, evalVars, presetVars>>

\* Lines 127-223: one iteration of the loop over config["charge-densities"].
ProcessDensity ==
    /\ pc = "densities"
    /\ idx < Len(Densities(config))
    /\ LET k == idx + 1
           density_func == Densities(config)[k]
           built == BuildRho(density_func, eval_safety)
       IN /\ idx' = k
          /\ IF built.st # "ok"
             THEN /\ RaiseFrom(built.st)
                  /\ UNCHANGED <<list_charge_densities, e_field, bound>>
             ELSE LET integral == Integrate(density_func, built.rho, k, config, axes)
                  IN /\ list_charge_densities' = Append(list_charge_densities, built.rho)
                     /\ bound' = bound \cup {"rho"}
                     /\ IF integral.st # "ok"
                        THEN /\ RaiseFrom(integral.st)
                             /\ UNCHANGED e_field
                        ELSE /\ e_field' = [e_field EXCEPT !.terms = @ \cup integral.terms]
                             /\ UNCHANGED <<pc, error>>
    /\ UNCHANGED <<config, eval_safety, axes, plane_axes, overall_charge_density,
                   evalVars, presetVars>>

\* Lines 226-229: the overall charge density, assigned only for a non-empty list.
Aggregate ==
    /\ pc = "densities"
    /\ idx = Len(Densities(config))
    /\ IF Len(list_charge_densities) > 0
       THEN IF AggregateRaises(list_charge_densities, axes) # {}
            THEN /\ RaiseFrom(CHOOSE e \in AggregateRaises(list_charge_densities, axes) : TRUE)
                 /\ overall_charge_density' = [pt \in Points(axes) |-> 0]
                 /\ bound' = bound \cup {"overall_charge_density"}
            ELSE /\ overall_charge_density' =
                        [pt \in Points(axes) |-> SumRho(list_charge_densities, axes, pt)]
                 /\ bound' = bound \cup {"overall_charge_density"}
                 /\ pc' = "reorder"
                 /\ UNCHANGED error
       ELSE /\ pc' = "reorder"
            /\ UNCHANGED <<overall_charge_density, bound, error>>
    /\ UNCHANGED <<config, eval_safety, axes, plane_axes, e_field, list_charge_densities,
                   idx, evalVars, presetVars>>

\* Lines 231-235: the axes reordered for a view plane other than z.
Reorder ==
    /\ pc = "reorder"
    /\ IF config["plane"]["axis"] # 2
       THEN IF {"e_field", "b_field", "overall_charge_density"} \subseteq bound
            THEN /\ plane_axes' = <<plane_axes[2], plane_axes[1]>>
                 /\ e_field' = [e_field EXCEPT !.moved = TRUE]
                 /\ pc' = "plot"
                 /\ UNCHANGED error
            ELSE /\ RaiseFrom("UnboundLocalError")
                 /\ UNCHANGED <<plane_axes, e_field>>
       ELSE /\ pc' = "plot"
            /\ UNCHANGED <<plane_axes, e_field, error>>
    /\ UNCHANGED <<config, eval_safety, bound, axes, list_charge_densities, idx,
                   overall_charge_density, evalVars, presetVars>>

StartViz ==
    /\ pc = "start"
    /\ error = ""
    /\ bound = {}
    /\ axes = [i \in 0..2 |-> <<>>]
    /\ plane_axes = <<0, 0>>
    /\ e_field = [charges |-> FALSE, terms |-> {}, moved |-> FALSE]
    /\ list_charge_densities = <<>>
    /\ idx = 0
    /\ overall_charge_density = [pt \in {} |-> 0]

Vec3(a, b, c) == [i \in 0..2 |-> IF i = 0 THEN a ELSE IF i = 1 THEN b ELSE c]

(***************************************************************************)
(* SpecGrid: the grid construction over varied bounds, margins,            *)
(* resolutions and view planes.  Per axis (min, max, margin), in units of  *)
(* 0.05: 0..10 with margin 1; 0..2.5; 0..0.5; 0..1.5; 0..1 with margin -1  *)
(* (a negative extent).                                                    *)
(***************************************************************************)
AxisBounds == {<<0, 200, 20>>, <<0, 50, 0>>, <<0, 10, 0>>, <<0, 30, 0>>, <<0, 20, 0 - 20>>}

GridConfigs ==
    {("plane" :> [axis |-> a, coordinate |-> Z])
     @@ ("plot-bounds" :> [min |-> Vec3(b0[1], b1[1], b2[1]), max |-> Vec3(b0[2], b1[2], b2[2])])
     @@ ("plot-margins" :> Vec3(b0[3], b1[3], b2[3]))
     @@ ("resolution" :> res) :
        a \in 0..2, Z \in {0, 100}, res \in {1, 2},
        b0 \in AxisBounds, b1 \in AxisBounds, b2 \in AxisBounds}

InitGrid ==
    /\ config \in GridConfigs
    /\ eval_safety = 0
    /\ StartViz
    /\ IdleEval
    /\ IdlePreset

NextGrid == BuildGrid

SpecGrid == InitGrid /\ [][NextGrid]_vars

(***************************************************************************)
(* Spec: visualize_fields over the unit cube sampled twice per axis, with  *)
(* or without a point charge, with up to MaxDensities densities, at every  *)
(* safety level and view plane.                                            *)
(***************************************************************************)
MaxDensities == 2

Preset(func, var, value) == [preset |-> TRUE, func |-> func, var |-> var, value |-> value]
Expression(tree) == [preset |-> FALSE, func |-> tree]

\* "x" and "x ** 1000" as expression sources (by their parse trees)
ExprX == Node("Name", "x", 0, <<>>)
ExprPow == Node("BinOp", "Pow", 0, <<ExprX, Node("Num", "", 1000, <<>>)>>)

DensitySpecs ==
    {Preset(PRESET_DELTA, "x", 0), Preset(PRESET_DELTA, "y", 0), Preset(PRESET_DELTA, "z", 0),
     Preset(PRESET_DELTA, "r", 20), Preset(PRESET_HEAVISIDE, "x", 10),
     Preset(PRESET_REVERSE_HEAVISIDE, "theta", 0)}
    \cup {Expression(ExprX), Expression(ExprPow)}

DensityLists == UNION {[1..n -> DensitySpecs] : n \in 0..MaxDensities}

VizConfigs ==
    {WithOptional(WithOptional(
        ("plane" :> [axis |-> a, coordinate |-> Z])
        @@ ("plot-bounds" :> [min |-> Vec3(0, 0, 0), max |-> Vec3(20, 20, 20)])
        @@ ("plot-margins" :> Vec3(0, 0, 0))
        @@ ("resolution" :> 2),
        "charges", ch, <<<<1, 0, 0, 0>>>>), "charge-densities", ds # <<>>, ds) :
        a \in 0..2, Z \in {0, 20}, ch \in BOOLEAN, ds \in DensityLists}

Init ==
    /\ config \in VizConfigs
    /\ eval_safety \in 0..2
    /\ StartViz
    /\ IdleEval
    /\ IdlePreset

Next ==
    \/ BuildGrid
    \/ AddCharges
    \/ ProcessDensity
    \/ Aggregate
    \/ Reorder

Spec == Init /\ [][Next]_vars

(***************************************************************************)
(* Claims about safe_eval (SpecEval)                                       *)
(***************************************************************************)
Evaluated == evalRes.st # "pending"

\* The grammar of the claim, read off the tree alone.
RECURSIVE InGrammar(_, _, _)
InGrammar(node, vs, fs) ==
    CASE node.k = "Num" -> TRUE
      [] node.k = "Name" -> node.a \in DOMAIN vs
      [] node.k = "BinOp" ->
            /\ node.a \in {"Add", "Sub", "Mult", "Div", "FloorDiv", "Pow"}
            /\ InGrammar(node.c[1], vs, fs)
            /\ InGrammar(node.c[2], vs, fs)
      [] node.k = "Call" ->
            /\ node.n = 0
            /\ node.c[1].k = "Name"
            /\ node.c[1].a \in fs
            /\ \A i \in 2..Len(node.c) : InGrammar(node.c[i], vs, fs)
      [] OTHER -> FALSE

\* C1: safe_eval returns a value only if every node of the tree is a numeric
\* literal, a name of the variable mapping, a binary operation with one of the
\* operators + - * / // **, or a call without keywords of a bare name of the
\* function mapping; any other expression ends in an exception and no value,
\* and an expression whose root is outside the grammar ends in the exception
\* of that root (KeyError for an unknown variable, operator or function,
\* AssertionError for keywords, a derived callee or any other node class).
C1_WhitelistOnly ==
    Evaluated =>
        /\ evalRes.st = "ok" => InGrammar(expr, variables, functions)
        /\ (expr.k = "Name" /\ expr.a \notin DOMAIN variables) => evalRes.st = "KeyError"
        /\ (expr.k = "BinOp" /\ expr.a = "Mod") => evalRes.st = "KeyError"
        /\ (expr.k = "Call" /\ expr.n # 0) => evalRes.st = "AssertionError"
        /\ (expr.k = "Call" /\ expr.n = 0 /\ expr.c[1].k # "Name") =>
                evalRes.st = "AssertionError"
        /\ (expr.k = "Call" /\ expr.n = 0 /\ expr.c[1].k = "Name"
                /\ expr.c[1].a \notin functions) => evalRes.st = "KeyError"
        /\ expr.k \in OtherKinds => evalRes.st = "AssertionError"

\* abs(x) - 2 with x in the mapping and abs in the functions has been evaluated.
C1_Witness ==
    /\ evalRes.st = "ok"
    /\ expr.k = "BinOp" /\ expr.a = "Sub"
    /\ expr.c[1].k = "Call" /\ expr.c[1].c[2].k = "Name"

\* The power nodes of a tree.
RECURSIVE PowNodes(_)
PowNodes(node) ==
    (IF node.k = "BinOp" /\ node.a = "Pow" THEN {node} ELSE {})
    \cup UNION {PowNodes(node.c[i]) : i \in 1..Len(node.c)}

\* C4: an evaluation that returns a value has found the exponent of every power
\* node of the expression, nested ones included, strictly below 100; and a
\* power whose exponent is below 100 evaluates to operator.pow(left, right).
C4_ExponentBound ==
    Evaluated =>
        /\ evalRes.st = "ok" =>
                \A p \in PowNodes(expr) :
                    LET r == _safe_eval(p.c[2], variables, functions)
                    IN r.st = "ok" /\ RatLess(ValOf(r), IntVal(100))
        /\ (expr.k = "BinOp" /\ expr.a = "Pow") =>
                LET l == _safe_eval(expr.c[1], variables, functions)
                    r == _safe_eval(expr.c[2], variables, functions)
                IN (l.st = "ok" /\ r.st = "ok") =>
                       IF RatLess(ValOf(r), IntVal(100))
                       THEN evalRes = op_pow(ValOf(l), ValOf(r))
                       ELSE evalRes.st = "AssertionError"

\* x ** 1000 with x = 2 has been evaluated and has failed.
C4_Witness ==
    /\ evalRes.st = "AssertionError"
    /\ expr = Node("BinOp", "Pow", 0, <<Node("Name", "x", 0, <<>>), Node("Num", "", 1000, <<>>)>>)
    /\ "x" \in DOMAIN variables

(***************************************************************************)
(* Claims about the presets (SpecPreset)                                   *)
(***************************************************************************)
Scale == IF "scale" \in DOMAIN preset THEN preset["scale"] ELSE 1
Tol == IF "tol" \in DOMAIN preset THEN preset["tol"] ELSE 3
ZeroOffset == "offset" \notin DOMAIN preset
\* The variables whose value at a position is an algebraic number.
Algebraic == {"x", "y", "z", "r", "rc"}
\* The value of the preset's variable at the (shifted) position.
VarValue ==
    offset_var(preset["var"], IF ZeroOffset THEN NoOffset ELSE preset["offset"],
               position[3], position[2], position[1])

\* C5: for a Delta preset with scale s, target value t, tolerance tol and zero
\* offset, the density is exactly s where |variable - t| < tol and exactly 0
\* elsewhere (theta and phi are angles whose value is not computed here: for
\* them the density is s or 0).
C5_DeltaReturnsScale ==
    LET d == rhoOut[PRESET_DELTA]
    IN (d # DPending /\ ZeroOffset) =>
          /\ d.st = "ok"
          /\ d.v \in {Scale, 0}
          /\ preset["var"] \in Algebraic =>
                (d.v = Scale <=>
                    /\ QtyLess(VarValue, preset["value"] + Tol)
                    /\ QtyGreater(VarValue, preset["value"] - Tol))

\* C8: Heaviside and Reverse-Heaviside presets of the same variable, target
\* value, offset and scale s: where the variable differs from the target
\* exactly one is s and the other 0, where it equals the target both are 0.
C8_HeavisideComplementary ==
    LET h == rhoOut[PRESET_HEAVISIDE]
        rh == rhoOut[PRESET_REVERSE_HEAVISIDE]
    IN (h # DPending /\ rh # DPending) =>
          /\ h.st = "ok" /\ rh.st = "ok"
          /\ h.v \in {Scale, 0} /\ rh.v \in {Scale, 0}
          /\ ~(h.v = Scale /\ rh.v = Scale)
          /\ preset["var"] \in Algebraic =>
                IF QtyLess(VarValue, preset["value"]) \/ QtyGreater(VarValue, preset["value"])
                THEN h.v = Scale \/ rh.v = Scale
                ELSE h.v = 0 /\ rh.v = 0

(***************************************************************************)
(* Claims about the grid (SpecGrid)                                        *)
(***************************************************************************)
GridBuilt == pc = "charges"
ViewAxis == config["plane"]["axis"]
OtherAxes == (0..2) \ {ViewAxis}
Lo(i) == config["plot-bounds"]["min"][i] - config["plot-margins"][i]
Hi(i) == config["plot-bounds"]["max"][i] + config["plot-margins"][i]
PositiveExtents == \A i \in OtherAxes : Hi(i) > Lo(i)
StrictlyAscending(seq) == \A k \in 1..(Len(seq) - 1) : RatLess(seq[k], seq[k + 1])
RunsFromLoToHi(i) ==
    /\ Len(axes[i]) >= 1
    /\ RatEq(axes[i][1], Rat(Lo(i), 1))
    /\ RatEq(axes[i][Len(axes[i])], Rat(Hi(i), 1))
    /\ StrictlyAscending(axes[i])

NDensities == Len(Densities(config))
DensityAt(k) == Densities(config)[k]
IsExpression(k) == ~DensityAt(k)["preset"]
\* The iteration for density k has been entered / has run to its end.
Entered(k) == k \in 1..idx
Integrated(k) == Entered(k) /\ (pc = "raised" => k < idx)
TermsOf(k) == {t \in e_field.terms : t.k = k}

\* C2: at safety level 0 every Expression density makes construct_function
\* raise, whatever the expression: visualize_fields ends in that exception,
\* the density is not appended, nothing is integrated or aggregated for it.
C2_SafetyZeroFails ==
    \A k \in 1..NDensities :
        (Entered(k) /\ IsExpression(k) /\ eval_safety = 0) =>
            /\ pc = "raised" /\ error = "Exception"
            /\ idx = k
            /\ Len(list_charge_densities) = k - 1
            /\ TermsOf(k) = {}
            /\ "overall_charge_density" \notin bound

\* A preset has been appended and the Expression after it has raised.
C2_Witness ==
    /\ eval_safety = 0 /\ idx = 2 /\ IsExpression(2) /\ DensityAt(2)["func"] = ExprPow
    /\ pc = "raised" /\ Len(list_charge_densities) = 1

\* x, y, z of a grid point as numbers (a coordinate counts units of 0.05)
PositionVars(X) == [a \in {"x", "y", "z"} |->
    LET c == IF a = "x" THEN X[0] ELSE IF a = "y" THEN X[1] ELSE X[2]
    IN ValOf(Norm(c.n, 20 * c.d))]

\* C3: at safety level 2 the density built from an Expression is a function of
\* position whose value at each grid point is the evaluator's result for the
\* source, over the variables of that point and the whitelisted functions.
C3_ExpressionEvaluated ==
    \A k \in 1..Len(list_charge_densities) :
        (IsExpression(k) /\ eval_safety = 2) =>
            /\ list_charge_densities[k].callable
            /\ \A pt \in Points(axes) :
                  LET r == RhoAtPoint(list_charge_densities[k], axes, pt)
                      e == safe_eval(DensityAt(k)["func"], PositionVars(Coord(axes, pt)),
                                     numpy_functions)
                  IN IF e.st = "ok" THEN r.st = "ok" /\ e.d = 1 /\ r.v = e.n
                     ELSE r.st # "ok"

\* rho(X) at grid point pt for the density of iteration k
RhoOfAt(k, pt) == RhoAtPoint(list_charge_densities[k], axes, pt)

\* C7 as stated: at a grid point X with rho(X) != 0 no quadrature is performed
\* and nothing is added to any field component, whatever the dimension.
C7_Original ==
    \A k \in 1..NDensities : Integrated(k) =>
        \A pt \in Points(axes) :
            (RhoOfAt(k, pt).st = "ok" /\ RhoOfAt(k, pt).v # 0) =>
                ~\E t \in TermsOf(k) : t.pt = pt

\* C7 as amended: under 3D quadrature a grid point with rho(X) != 0 gets no
\* quadrature and contributes 0 to both computed components, and one with
\* rho(X) = 0 gets a 3D quadrature per computed component; under 1D and 2D
\* quadrature every grid point is integrated, whatever rho(X).
C7_ShortCircuit3D ==
    \A k \in 1..NDensities : Integrated(k) =>
        \A pt \in Points(axes), comp \in (0..2) \ {config["plane"]["axis"]} :
            LET here == {t \in TermsOf(k) : t.pt = pt /\ t.comp = comp}
            IN IF IsAxisDelta(DensityAt(k))
               THEN Cardinality(here) = 1 /\ \A t \in here : t.dim \in {1, 2}
               ELSE IF RhoOfAt(k, pt).v # 0 THEN here = {}
               ELSE Cardinality(here) = 1 /\ \A t \in here : t.dim = 3

\* A density under 3D quadrature has been integrated with some grid points
\* short-circuited and others integrated.
C7_Witness ==
    \E k \in 1..NDensities :
        /\ Integrated(k) /\ ~IsAxisDelta(DensityAt(k))
        /\ \E pt \in Points(axes) : RhoOfAt(k, pt).v # 0 /\ ~\E t \in TermsOf(k) : t.pt = pt
        /\ \E pt \in Points(axes) : RhoOfAt(k, pt).v = 0 /\ \E t \in TermsOf(k) : t.pt = pt

\* The delta's own axis.
AxisOf(var) == IF var = "x" THEN 0 ELSE IF var = "y" THEN 1 ELSE 2
Range(i) == <<axes[i][1], axes[i][Len(axes[i])]>>

\* C9: the lookup is a permutation of {0, 1, 2} whose delAxis is the delta's
\* own axis; an axis-aligned delta is integrated in 2D over the two axes other
\* than its own exactly when its axis is the view-plane axis, and otherwise in
\* 1D over the axis that is neither, the source point's view-plane coordinate
\* being the slice coordinate and its delta coordinate the target value, each
\* integration variable between the ends of its own axis; any other density
\* is integrated in 3D.
C9_DimensionReduction ==
    /\ \A var \in {"x", "y", "z"}, a \in 0..2 :
          LET t == AxisTable(var, a)
          IN {t[1], t[2], t[3]} = 0..2 /\ t[3] = AxisOf(var)
    /\ \A k \in 1..NDensities : Integrated(k) =>
          \A t \in TermsOf(k) :
              LET d == DensityAt(k)
                  ax3 == config["plane"]["axis"]
              IN IF ~IsAxisDelta(d) THEN t.dim = 3
                 ELSE LET del == AxisOf(d["var"])
                      IN /\ t.dim = (IF del = ax3 THEN 2 ELSE 1)
                         /\ Len(t.lim) = t.dim
                         /\ t.Y[del] = Const(Rat(d["value"], 1))
                         /\ del # ax3 => t.Y[ax3] = Const(Rat(config["plane"]["coordinate"], 1))
                         /\ \A j \in (0..2) \ {del, ax3} :
                               /\ t.Y[j].kind = "var"
                               /\ t.Y[j].i \in 1..t.dim
                               /\ t.lim[t.Y[j].i] = Range(j)
                         /\ \A i, j \in (0..2) \ {del, ax3} : t.Y[i] = t.Y[j] => i = j

\* A delta along x has been integrated in 1D for the view plane y = 1.
C9_Witness ==
    \E k \in 1..NDensities :
        /\ Integrated(k) /\ IsAxisDelta(DensityAt(k)) /\ DensityAt(k)["var"] = "x"
        /\ config["plane"]["axis"] = 1 /\ config["plane"]["coordinate"] = 20
        /\ \E t \in TermsOf(k) : t.dim = 1 /\ t.Y[2] = IntVar(1)

\* C10: with point charges and no densities visualize_fields runs through the
\* aggregation and the axis reordering without an exception, for every view
\* plane.
C10_ChargesOnlyRuns ==
    ("charges" \in DOMAIN config /\ NDensities = 0) => pc # "raised"

====
